---- MODULE Spec2Model ----
(***************************************************************************)
(* Model of imitation/policies/trainer.py: the trajectory generators       *)
(* (TrajectoryDataset, AgentTrainer) and the step-quota selector           *)
(* _get_trajectories.                                                      *)
(*                                                                         *)
(* A trajectory is a record [id, rews, by]: rews is the sequence of the    *)
(* rewards of its transitions (len(traj) = Len(rews)), id tells objects    *)
(* apart (Python object identity) and by names who built the object.       *)
(*                                                                         *)
(* One run is about one object: a direct caller of _get_trajectories, a    *)
(* TrajectoryDataset or an AgentTrainer (variable gen).  Calls are          *)
(* synchronous and single-threaded; a call of AgentTrainer that is inside   *)
(* algorithm.learn or rollout.generate_trajectories is followed step by     *)
(* step of the environment (variable pc), and nothing else can run until    *)
(* it has returned.                                                         *)
(*                                                                         *)
(* The classes trainer.py imports from the rest of the package              *)
(* (BufferingWrapper, RewardVecEnvWrapper, the rollout utility) are         *)
(* modelled from the design document:                                       *)
(*   - the BufferingWrapper keeps the finished trajectories in a buffer     *)
(*     and the running episode apart; pop_trajectories returns and clears   *)
(*     the buffer only; n_transitions counts the buffered transitions;      *)
(*   - the RewardVecEnvWrapper replaces the reward coming from below by     *)
(*     reward_fn's and changes nothing else;                                *)
(*   - the rollout utility steps the environment from where it stands and   *)
(*     returns its own finished episodes once they hold min_timesteps.      *)
(* The environment has one sub-environment; an episode ends after at most   *)
(* MaxEpLen steps; the true reward of a step depends on its position in     *)
(* the episode, by a function chosen at the start.  algorithm.learn takes   *)
(* exactly total_timesteps steps of the environment it was given.           *)
(***************************************************************************)
EXTENDS Integers, Sequences, FiniteSets

\* ------------------------------------------------------------------ bounds
MaxSelTrajs == 3      \* longest input sequence handed to the selector harness
MaxSelLen == 5        \* longest trajectory in the selector harness
MaxDsTrajs == 3       \* largest stored collection of a TrajectoryDataset
MaxDsLen == 2         \* longest trajectory of a stored collection
MaxSeed == 1          \* seeds 0..MaxSeed
RngMod == 7           \* number of states of the pseudo-random generator
MaxDsCalls == 2       \* sample/train calls issued on a TrajectoryDataset
MaxEpLen == 2         \* the environment ends an episode after at most this many steps
MaxEnvSteps == 4      \* environment steps taken in one run
MaxReq == 3           \* largest steps argument given to an AgentTrainer
MaxCalls == 4         \* train/sample calls issued on an AgentTrainer
MaxLoggerSets == 2    \* assignments to an AgentTrainer's logger after construction

VARIABLES
    gen,               \* which object is under test
    sel_trajectories,  \* selector harness: the sequence handed to _get_trajectories
    ds_trajectories,   \* TrajectoryDataset._trajectories
    rng,               \* TrajectoryDataset.rng (state of random.Random)
    ds_calls,          \* number of calls issued on the dataset so far
    ds_seed,           \* the seed the TrajectoryDataset was constructed with
    ds_samples,        \* number of sample calls issued on the dataset so far
    twin,              \* a second TrajectoryDataset, same path and seed, given the sample calls only
    module_rng,        \* state of the module-level generator of random
    handed,            \* the list most recently passed to _get_trajectories
    ret,               \* outcome of the most recent call
    env_reward,        \* the environment: the true reward of each step of an episode
    env_log,           \* the environment: the true reward of every step taken so far
    ep_len,            \* the environment: steps taken in the running episode
    buffering_wrapper, \* AgentTrainer.buffering_wrapper: [trajectories, accum]
    agent_rews,        \* the algorithm: the reward of every transition it was given in learn
    learn_calls,       \* the algorithm: total_timesteps of every learn invocation
    log,               \* the logger: the diagnostics logged so far
    pc,                \* "idle", or the external call the running method is inside
    frame,             \* locals of the running method
    calls,             \* number of calls issued on the AgentTrainer so far
    train_calls,       \* train calls issued since the last sample call
    at_train,          \* the buffer and the learn invocations when train was last called
    trained,           \* the most recent finished learn, until the next sample call
    smp,               \* what the most recent sample call did
    rollout_out,       \* the value generate_trajectories returned most recently
    drained,           \* every trajectory a pop_trajectories call has returned
    returned,          \* ids of the trajectories sample calls have returned, in order
    constructed,       \* "no", "ok", or the exception AgentTrainer.__init__ raised
    logger,            \* TrajectoryGenerator._logger
    algorithm,         \* the algorithm passed to AgentTrainer: [env, logger]
    algorithm0,        \* the algorithm as it was when it was passed to __init__
    made,              \* the wrappers __init__ created, innermost first
    assigned           \* every value the logger setter was given, in order

dsvars == <<sel_trajectories, ds_trajectories, rng, ds_calls, ds_seed, ds_samples, twin,
           module_rng>>
envvars == <<env_reward, env_log, ep_len, buffering_wrapper>>
agvars == <<env_reward, env_log, ep_len, buffering_wrapper, agent_rews, learn_calls, log,
            pc, frame, calls, train_calls, at_train, trained, smp, rollout_out, drained, returned>>
ctorvars == <<constructed, logger, algorithm, algorithm0, made, assigned>>
vars == <<gen, sel_trajectories, ds_trajectories, rng, ds_calls, handed, ret, env_reward,
          env_log, ep_len, buffering_wrapper, agent_rews, learn_calls, log, pc, frame,
          calls, train_calls, at_train, trained, smp, rollout_out, drained, returned,
          constructed, logger, algorithm, algorithm0, made, assigned, ds_seed, ds_samples,
          twin, module_rng>>

\* ----------------------------------------------------------------- helpers
Seqs(S, n) == UNION {[1..k -> S] : k \in 0..n}

Zeros(n) == [k \in 1..n |-> 0]

\* types.load(path): the persisted collection, one trajectory per length given
Load(lens) == [i \in 1..Len(lens) |-> [id |-> i, rews |-> Zeros(lens[i]), by |-> "load"]]

\* len(traj)
TrajLen(traj) == Len(traj.rews)

RECURSIVE SumLen(_)
\* sum(len(traj) for traj in trajectories)
SumLen(trajectories) ==
    IF trajectories = <<>> THEN 0
    ELSE TrajLen(Head(trajectories)) + SumLen(Tail(trajectories))

\* np.cumsum([len(traj) for traj in trajectories])
CumSum(trajectories) ==
    [i \in 1..Len(trajectories) |-> SumLen(SubSeq(trajectories, 1, i))]

\* ndarray.argmax() of a boolean array: the (0-based) index of the first True,
\* 0 when no element is True; only called on non-empty arrays here
ArgMax(mask) ==
    IF \E i \in 1..Len(mask) : mask[i]
    THEN (CHOOSE i \in 1..Len(mask) : mask[i] /\ \A j \in 1..(i - 1) : ~mask[j]) - 1
    ELSE 0

\* the outcome of a call: a return value or a raised exception
Ok(op, steps, value) ==
    [op |-> op, steps |-> steps, status |-> "ok", value |-> value, msg |-> <<>>]

Running(op, steps) ==
    [op |-> op, steps |-> steps, status |-> "running", value |-> <<>>, msg |-> <<>>]

Raise(op, steps, exc, msg) ==
    [op |-> op, steps |-> steps, status |-> exc, value |-> <<>>, msg |-> msg]

NoCall == [op |-> "none", steps |-> 0, status |-> "none", value |-> <<>>, msg |-> <<>>]

\* ------------------------------------------------------- _get_trajectories
\* a slice that leaves out the element at position idx
SliceBefore(trajectories, idx) == SubSeq(trajectories, 1, idx)

\* trajectories[: idx + 1]
SliceTo(trajectories, idx) ==
    SubSeq(trajectories, 1, IF idx + 1 > Len(trajectories) THEN Len(trajectories) ELSE idx + 1)

\* the comparison the other way round
MoreThanAsked(available_steps, steps) == available_steps > steps

\* if available_steps < steps: raise
Insufficient(available_steps, steps) == available_steps < steps

\* a selector that returns whatever it is given
return_all(op, trajectories, steps) == Ok(op, steps, trajectories)

get_trajectories(op, trajectories, steps) ==
    LET available_steps == SumLen(trajectories) IN
    IF Insufficient(available_steps, steps)
    THEN Raise(op, steps, "RuntimeError", <<steps, available_steps>>)
    ELSE IF trajectories = <<>>
    THEN Raise(op, steps, "ValueError", <<>>)   \* argmax of an empty sequence
    ELSE LET steps_cumsum == CumSum(trajectories)
             idx == ArgMax([i \in 1..Len(trajectories) |-> steps_cumsum[i] >= steps])
             result == SliceTo(trajectories, idx)
         IN  IF SumLen(result) >= steps
             THEN Ok(op, steps, result)
             ELSE Raise(op, steps, "AssertionError", <<>>)

\* ------------------------------------------------------- TrajectoryDataset
\* the generator's next state
NextRng(s) == (3 * s + 1) % RngMod

\* random.Random(seed)
Seeded(seed) == seed % RngMod

\* Random._randbelow(n) on a generator that has just advanced to state s
RandBelow(s, n) == s % n

Swap(x, i, j) == [x EXCEPT ![i] = x[j], ![j] = x[i]]

RECURSIVE ShuffleFrom(_, _, _)
\* random.shuffle: for i in reversed(range(1, len(x))): j = randbelow(i + 1);
\* x[i], x[j] = x[j], x[i]   (i is 0-based; positions here are 1-based)
ShuffleFrom(x, i, s) ==
    IF i < 1 THEN [list |-> x, rng |-> s]
    ELSE LET s1 == NextRng(s)
             j == RandBelow(s1, i + 1)
         IN  ShuffleFrom(Swap(x, i + 1, j + 1), i - 1, s1)

Shuffle(x, s) == ShuffleFrom(x, Len(x) - 1, s)

\* the generator of the random module, shared by every caller
module_random == "random"

\* the generator sample shuffles with: the instance's own
shuffle_rng == "self.rng"

\* a shuffle of the stored list itself
shuffled_in_place(stored, shuffled) == shuffled

\* self._trajectories after sample: the shuffle worked on list(self._trajectories)
stored_after_shuffle(stored, shuffled) == stored

\* a train that draws from the generator
train_draws(self, steps) == [self EXCEPT !.rng = NextRng(self.rng)]

\* TrajectoryGenerator.train: the body is a docstring only
base_train(self, steps) == self

\* one sample call on a TrajectoryDataset self = [trajectories, rng] while the
\* module-level generator is in state m: the shuffled list, the instance and
\* the module-level generator afterwards
DatasetShuffle(self, m) ==
    LET own == shuffle_rng = "self.rng"
        shuffled == Shuffle(self.trajectories, IF own THEN self.rng ELSE m)
    IN  [list |-> shuffled.list,
         self |-> [trajectories |-> stored_after_shuffle(self.trajectories, shuffled.list),
                   rng |-> IF own THEN shuffled.rng ELSE self.rng],
         module_rng |-> IF own THEN m ELSE shuffled.rng]

NoTwin == [trajectories |-> <<>>, rng |-> 0, handed |-> <<>>, ret |-> <<>>]

\* ------------------------------------------------------------- environment
\* the true rewards the environment gives
EnvRewards == {0, 1}

\* the reward functions an environment may have: one reward per step of an episode
EnvRewardFns == [0..(MaxEpLen - 1) -> EnvRewards]

\* one step of the environment: its true reward and a done flag; the episode is
\* over after MaxEpLen steps at the latest
EnvOutcomes ==
    {[rew |-> env_reward[ep_len], done |-> d] : d \in {b \in BOOLEAN : ep_len + 1 >= MaxEpLen => b}}

\* --------------------------------------------------------- BufferingWrapper
NoAccum == [start |-> 0, rews |-> <<>>]

NewBuffer == [trajectories |-> <<>>, accum |-> NoAccum]

\* BufferingWrapper.n_transitions: the transitions of the buffered trajectories
n_transitions(bw) == SumLen(bw.trajectories)

\* an accumulator after one more transition; t is the number of the step
Accumulate(accum, t, rew) ==
    [start |-> IF accum.rews = <<>> THEN t ELSE accum.start, rews |-> Append(accum.rews, rew)]

\* BufferingWrapper.step_wait: records the transition with the reward it sees;
\* at the end of the episode the trajectory moves to the buffer
BufferStep(bw, t, rew, done) ==
    LET acc == Accumulate(bw.accum, t, rew) IN
    IF done
    THEN [trajectories |-> Append(bw.trajectories,
                                  [id |-> acc.start, rews |-> acc.rews, by |-> "BufferingWrapper"]),
          accum |-> NoAccum]
    ELSE [trajectories |-> bw.trajectories, accum |-> acc]

\* BufferingWrapper.pop_trajectories: returns the buffered trajectories and
\* clears the buffer; the running trajectory stays
Drain(bw) == [out |-> bw.trajectories, bw |-> [bw EXCEPT !.trajectories = <<>>]]

\* ------------------------------------------------------ RewardVecEnvWrapper
\* the reward function given to the AgentTrainer: a constant
reward_fn(outcome) == 1

\* ------------------------------------------------------ AgentTrainer.__init__
\* the wrappers the other way round
reward_wrapper_first == <<"RewardVecEnvWrapper", "BufferingWrapper">>

\* the wrappers around the algorithm's environment, innermost first
venv_chain == <<"BufferingWrapper", "RewardVecEnvWrapper">>

RECURSIVE Through(_, _, _)
\* the reward that comes out of the k innermost wrappers of the chain
Through(chain, k, outcome) ==
    IF k = 0 THEN outcome.rew
    ELSE IF chain[k] = "RewardVecEnvWrapper" THEN reward_fn(outcome)
    ELSE Through(chain, k - 1, outcome)

\* the reward the BufferingWrapper sees: the one coming from below it
Recorded(chain, outcome) ==
    Through(chain, (CHOOSE k \in 1..Len(chain) : chain[k] = "BufferingWrapper") - 1, outcome)

\* the reward whoever steps self.venv is given
Delivered(chain, outcome) == Through(chain, Len(chain), outcome)

\* one step of the environment
EnvStep(outcome) ==
    /\ Len(env_log) < MaxEnvSteps
    /\ UNCHANGED env_reward
    /\ env_log' = Append(env_log, outcome.rew)
    /\ ep_len' = IF outcome.done THEN 0 ELSE ep_len + 1

\* the BufferingWrapper after a step of self.venv
Stepped(bw, outcome) ==
    BufferStep(bw, Len(env_log) + 1, Recorded(venv_chain, outcome), outcome.done)

\* ----------------------------------------------------------- AgentTrainer
NoFrame == [steps |-> 0, remaining |-> 0, aligned |-> FALSE, pending |-> <<>>,
            trajectories |-> <<>>, until |-> 0, r_accum |-> NoAccum, r_trajs |-> <<>>]

\* what a sample call did: the lists its first and its second pop gave, the
\* min_timesteps of the rollouts it asked for, the number of its pops, the
\* length of the log before it
NoSample == [first |-> <<>>, second |-> <<>>, rollouts |-> <<>>, pops |-> 0, log_from |-> 0]

NotTrained == [steps |-> 0 - 1, aligned |-> FALSE]

Ids(trajectories) == [i \in 1..Len(trajectories) |-> trajectories[i].id]

Range(f) == {f[i] : i \in DOMAIN f}

\* the list in the order it came
KeepOrder(x) == x

\* trajectories[::-1]
Reverse(x) == [i \in 1..Len(x) |-> x[Len(x) + 1 - i]]

\* a read of the buffer that leaves it as it is
peek_trajectories(bw) == [out |-> bw.trajectories, bw |-> bw]

\* AgentTrainer._pop_trajectories
pop_trajectories(bw) == Drain(bw)

\* a guard that lets every call through
NeverRejects(n) == FALSE

\* AgentTrainer.train: the guard on the transitions left in the buffer
TrainRejects(n) == n # 0

\* AgentTrainer.train(steps)
TrainCall(steps) ==
    /\ gen = "AgentTrainer"
    /\ pc = "idle"
    /\ calls < MaxCalls
    /\ Len(env_log) + steps <= MaxEnvSteps
    /\ calls' = calls + 1
    /\ train_calls' = train_calls + 1
    /\ LET n == n_transitions(buffering_wrapper) IN
        /\ at_train' = [bw |-> buffering_wrapper, learn_calls |-> learn_calls]
        /\ IF TrainRejects(n)
           THEN /\ ret' = Raise("train", steps, "RuntimeError", <<n>>)
                /\ UNCHANGED <<learn_calls, pc, frame, trained>>
           ELSE /\ learn_calls' = Append(learn_calls, steps)
                /\ IF steps <= 0
                   THEN /\ ret' = Ok("train", steps, <<>>)
                        /\ trained' = [steps |-> steps,
                                       aligned |-> buffering_wrapper.accum = NoAccum]
                        /\ UNCHANGED <<pc, frame>>
                   ELSE /\ ret' = Running("train", steps)
                        /\ pc' = "learn"
                        /\ frame' = [NoFrame EXCEPT !.steps = steps, !.remaining = steps,
                                        !.aligned = (buffering_wrapper.accum = NoAccum)]
                        /\ UNCHANGED trained
    /\ UNCHANGED <<gen, ctorvars, dsvars, handed, envvars, agent_rews, log, smp, rollout_out,
                   drained, returned>>

\* algorithm.learn: the algorithm steps the environment it was given; the step
\* goes down the wrappers to the environment and the BufferingWrapper records it
\* on the way up
LearnEnvStep(outcome) ==
    /\ pc = "learn"
    /\ EnvStep(outcome)
    /\ buffering_wrapper' = Stepped(buffering_wrapper, outcome)
    /\ pc' = "learn_deliver"
    /\ frame' = [frame EXCEPT !.pending = <<[rew |-> Delivered(venv_chain, outcome),
                                            done |-> outcome.done]>>]
    /\ UNCHANGED <<gen, ctorvars, dsvars, handed, ret, agent_rews, learn_calls, log, calls,
                   train_calls, at_train, trained, smp, rollout_out, drained, returned>>

\* algorithm.learn: the algorithm is given the transition self.venv delivers;
\* after total_timesteps steps learn returns, and train with it
LearnDeliver ==
    /\ pc = "learn_deliver"
    /\ agent_rews' = Append(agent_rews, frame.pending[1].rew)
    /\ IF frame.remaining > 1
       THEN /\ frame' = [frame EXCEPT !.remaining = frame.remaining - 1, !.pending = <<>>]
            /\ pc' = "learn"
            /\ UNCHANGED <<ret, trained>>
       ELSE /\ frame' = NoFrame
            /\ pc' = "idle"
            /\ ret' = Ok("train", frame.steps, <<>>)
            /\ trained' = [steps |-> frame.steps,
                           aligned |-> frame.aligned /\ frame.pending[1].done]
    /\ UNCHANGED <<gen, ctorvars, dsvars, handed, envvars, learn_calls, log, calls, train_calls,
                   at_train, smp, rollout_out, drained, returned>>

\* the trajectories generate_trajectories returned, taken as the additional ones
rollout_trajectories(popped, rolled) == rolled

\* sample: which trajectories are the additional ones, the ones the second pop
\* gives or the ones generate_trajectories returned
additional_trajectories(popped, rolled) == popped

\* sample: if avail_steps < steps
NeedsTopUp(avail_steps, steps) == avail_steps < steps

\* the whole request as min_timesteps
WholeRequest(steps, avail_steps) == steps

\* sample: min_timesteps = steps - avail_steps
Shortfall(steps, avail_steps) == steps - avail_steps

\* a list that holds the additional trajectories only
OnlyAdditional(trajectories, additional) == additional

\* sample: the list handed to _get_trajectories after a top-up
TopUp(trajectories, additional) == trajectories \o additional

\* AgentTrainer.sample(steps), up to its return or to the call of
\* rollout.generate_trajectories
SampleCall(steps) ==
    /\ gen = "AgentTrainer"
    /\ pc = "idle"
    /\ calls < MaxCalls
    /\ calls' = calls + 1
    /\ train_calls' = 0
    /\ trained' = NotTrained
    /\ LET popped == pop_trajectories(buffering_wrapper)
           trajectories == Reverse(popped.out)
           avail_steps == SumLen(trajectories)
       IN
        /\ NeedsTopUp(avail_steps, steps) =>
              Len(env_log) + steps + MaxEpLen - 1 <= MaxEnvSteps + avail_steps
        /\ buffering_wrapper' = popped.bw
        /\ drained' = drained \cup Range(popped.out)
        /\ IF NeedsTopUp(avail_steps, steps)
           THEN /\ log' = Append(log, [requested |-> steps, in_buffer |-> avail_steps,
                                       additional |-> steps - avail_steps])
                /\ pc' = "rollout"
                /\ frame' = [NoFrame EXCEPT !.steps = steps, !.trajectories = trajectories,
                                            !.until = Shortfall(steps, avail_steps)]
                /\ smp' = [first |-> popped.out, second |-> <<>>,
                           rollouts |-> <<Shortfall(steps, avail_steps)>>,
                           pops |-> 1, log_from |-> Len(log)]
                /\ ret' = Running("sample", steps)
                /\ UNCHANGED <<handed, returned>>
           ELSE /\ handed' = trajectories
                /\ ret' = get_trajectories("sample", trajectories, steps)
                /\ returned' = returned \o Ids(ret'.value)
                /\ smp' = [first |-> popped.out, second |-> <<>>, rollouts |-> <<>>,
                           pops |-> 1, log_from |-> Len(log)]
                /\ UNCHANGED <<log, pc, frame>>
    /\ UNCHANGED <<gen, ctorvars, dsvars, env_reward, env_log, ep_len, agent_rews, learn_calls,
                   at_train, rollout_out>>

\* rollout.make_sample_until(min_timesteps, min_episodes=None): the rollout
\* stops once the episodes it has finished hold min_timesteps steps
SampleUntil(r_trajs, min_timesteps) == SumLen(r_trajs) >= min_timesteps

\* rollout.generate_trajectories(algorithm, self.venv, sample_until): one step
\* of self.venv; an episode that ends is added to the trajectories of the
\* rollout, with the rewards self.venv delivered; once these hold min_timesteps
\* steps the rollout returns and sample runs to its end
RolloutStep(outcome) ==
    /\ pc = "rollout"
    /\ EnvStep(outcome)
    /\ LET acc == Accumulate(frame.r_accum, Len(env_log) + 1, Delivered(venv_chain, outcome))
           r_trajs == IF outcome.done
                      THEN Append(frame.r_trajs,
                                  [id |-> acc.start, rews |-> acc.rews, by |-> "rollout"])
                      ELSE frame.r_trajs
       IN
        IF ~(outcome.done /\ SampleUntil(r_trajs, frame.until))
        THEN /\ buffering_wrapper' = Stepped(buffering_wrapper, outcome)
             /\ frame' = [frame EXCEPT !.r_accum = IF outcome.done THEN NoAccum ELSE acc,
                                       !.r_trajs = r_trajs]
             /\ UNCHANGED <<pc, ret, handed, smp, rollout_out, drained, returned>>
        ELSE LET popped == pop_trajectories(Stepped(buffering_wrapper, outcome))
                 additional == additional_trajectories(popped.out, r_trajs)
                 trajectories == TopUp(frame.trajectories, additional)
             IN
              /\ rollout_out' = r_trajs
              /\ buffering_wrapper' = popped.bw
              /\ drained' = drained \cup Range(popped.out)
              /\ smp' = [smp EXCEPT !.pops = smp.pops + 1, !.second = popped.out]
              /\ handed' = trajectories
              /\ ret' = get_trajectories("sample", trajectories, frame.steps)
              /\ returned' = returned \o Ids(ret'.value)
              /\ frame' = NoFrame
              /\ pc' = "idle"
    /\ UNCHANGED <<gen, ctorvars, dsvars, agent_rews, learn_calls, log, calls, train_calls, at_train,
                   trained>>

\* ------------------------------------------------------------- construction
\* what algorithm.get_env() can give: no environment, a plain environment, a VecEnv
EnvKinds == {"None", "gym.Env", "VecEnv"}

\* logger objects, by identity; Configured is the one imit_logger.configure() makes
Loggers == {"L1", "L2", "L3"}
Configured == "configured"
AlgoLoggers == {"sb3", "L1"}

NoAlgorithm == [env |-> "None", logger |-> "unset"]

\* custom_logger or imit_logger.configure()
LoggerOrDefault(custom_logger) ==
    IF custom_logger = "None" THEN Configured ELSE custom_logger

\* a setter that leaves the algorithm alone
keep_logger(algo, value) == algo

\* self.algorithm.set_logger(self.logger)
set_logger(algo, value) == [algo EXCEPT !.logger = value]

\* isinstance(venv, VecEnv)
IsVecEnv(venv) == venv = "VecEnv"

\* AgentTrainer.__init__(algorithm, reward_fn, custom_logger)
Construct(custom_logger) ==
    /\ gen = "AgentTrainer"
    /\ constructed = "no"
    /\ LET value == LoggerOrDefault(custom_logger)
           algo == set_logger(algorithm, value)
           venv == algo.env
       IN /\ logger' = value
          /\ assigned' = Append(assigned, value)
          /\ IF ~IsVecEnv(venv)
             THEN /\ constructed' = "ValueError"
                  /\ algorithm' = algo
                  /\ made' = <<>>
             ELSE /\ constructed' = "ok"
                  /\ made' = venv_chain
                  /\ algorithm' = [algo EXCEPT !.env = venv_chain[Len(venv_chain)]]
    /\ UNCHANGED <<gen, dsvars, handed, ret, agvars, algorithm0>>

\* AgentTrainer.logger = value
SetLogger(value) ==
    /\ gen = "AgentTrainer"
    /\ constructed = "ok"
    /\ Len(assigned) <= MaxLoggerSets
    /\ logger' = value
    /\ algorithm' = set_logger(algorithm, logger')
    /\ assigned' = Append(assigned, value)
    /\ UNCHANGED <<gen, dsvars, handed, ret, agvars, constructed, algorithm0, made>>

\* -------------------------------------------------------------------- Init
InitSelector ==
    /\ constructed = "no"
    /\ logger = "unset"
    /\ algorithm = NoAlgorithm
    /\ algorithm0 = NoAlgorithm
    /\ made = <<>>
    /\ assigned = <<>>
    /\ env_reward = [p \in 0..(MaxEpLen - 1) |-> 0]
    /\ gen = "selector"
    /\ sel_trajectories \in {Load(lens) : lens \in Seqs(1..MaxSelLen, MaxSelTrajs)}
    /\ ds_trajectories = <<>>
    /\ rng = 0
    /\ ds_seed = 0
    /\ twin = [NoTwin EXCEPT !.ret = NoCall]

InitDataset ==
    /\ constructed = "ok"
    /\ logger = Configured
    /\ algorithm = NoAlgorithm
    /\ algorithm0 = NoAlgorithm
    /\ made = <<>>
    /\ assigned = <<Configured>>
    /\ env_reward = [p \in 0..(MaxEpLen - 1) |-> 0]
    /\ gen = "TrajectoryDataset"
    /\ sel_trajectories = <<>>
    /\ ds_trajectories \in {Load(lens) : lens \in Seqs(1..MaxDsLen, MaxDsTrajs)}
    /\ ds_seed \in 0..MaxSeed
    /\ rng = Seeded(ds_seed)
    /\ twin = [trajectories |-> ds_trajectories, rng |-> Seeded(ds_seed), handed |-> <<>>,
               ret |-> NoCall]

\* an AgentTrainer built from an algorithm whose environment is a VecEnv, with
\* no custom logger
InitAgent ==
    /\ constructed = "ok"
    /\ logger = Configured
    /\ algorithm0 = [env |-> "VecEnv", logger |-> "sb3"]
    /\ algorithm = [env |-> venv_chain[Len(venv_chain)], logger |-> Configured]
    /\ made = venv_chain
    /\ assigned = <<Configured>>
    /\ env_reward \in EnvRewardFns
    /\ gen = "AgentTrainer"
    /\ sel_trajectories = <<>>
    /\ ds_trajectories = <<>>
    /\ rng = 0
    /\ ds_seed = 0
    /\ twin = [NoTwin EXCEPT !.ret = NoCall]

InitCalls ==
    /\ ds_calls = 0
    /\ ds_samples = 0
    /\ module_rng = 0
    /\ handed = <<>>
    /\ ret = NoCall
    /\ env_log = <<>>
    /\ ep_len = 0
    /\ buffering_wrapper = NewBuffer
    /\ agent_rews = <<>>
    /\ learn_calls = <<>>
    /\ log = <<>>
    /\ pc = "idle"
    /\ frame = NoFrame
    /\ calls = 0
    /\ train_calls = 0
    /\ at_train = [bw |-> NewBuffer, learn_calls |-> <<>>]
    /\ trained = NotTrained
    /\ smp = NoSample
    /\ rollout_out = <<>>
    /\ drained = {}
    /\ returned = <<>>

Init ==
    /\ InitSelector \/ InitDataset \/ InitAgent
    /\ InitCalls

\* before AgentTrainer.__init__: the algorithm the caller is about to pass
InitConstruct ==
    /\ gen = "AgentTrainer"
    /\ env_reward = [p \in 0..(MaxEpLen - 1) |-> 0]
    /\ sel_trajectories = <<>>
    /\ ds_trajectories = <<>>
    /\ rng = 0
    /\ ds_seed = 0
    /\ twin = [NoTwin EXCEPT !.ret = NoCall]
    /\ constructed = "no"
    /\ logger = "unset"
    /\ algorithm \in [env : EnvKinds, logger : AlgoLoggers]
    /\ algorithm0 = algorithm
    /\ made = <<>>
    /\ assigned = <<>>
    /\ InitCalls

\* ----------------------------------------------------------------- actions
\* a direct call _get_trajectories(trajectories, steps)
Select(steps) ==
    /\ gen = "selector"
    /\ ret = NoCall
    /\ handed' = sel_trajectories
    /\ ret' = get_trajectories("select", sel_trajectories, steps)
    /\ UNCHANGED <<gen, ctorvars, dsvars, agvars>>

\* TrajectoryDataset.sample(steps), and the same call on the twin after it
DatasetSample(steps) ==
    /\ gen = "TrajectoryDataset"
    /\ ds_calls < MaxDsCalls
    /\ LET one == DatasetShuffle([trajectories |-> ds_trajectories, rng |-> rng], module_rng)
           two == DatasetShuffle([trajectories |-> twin.trajectories, rng |-> twin.rng],
                                 one.module_rng)
       IN /\ ds_trajectories' = one.self.trajectories
          /\ rng' = one.self.rng
          /\ handed' = one.list
          /\ ret' = get_trajectories("sample", one.list, steps)
          /\ twin' = [trajectories |-> two.self.trajectories, rng |-> two.self.rng,
                      handed |-> two.list,
                      ret |-> get_trajectories("sample", two.list, steps)]
          /\ module_rng' = two.module_rng
    /\ ds_calls' = ds_calls + 1
    /\ ds_samples' = ds_samples + 1
    /\ UNCHANGED <<gen, ctorvars, sel_trajectories, ds_seed, agvars>>

\* TrajectoryGenerator.train(steps, **kwargs), inherited by TrajectoryDataset
DatasetTrain(steps) ==
    /\ gen = "TrajectoryDataset"
    /\ ds_calls < MaxDsCalls
    /\ LET after == base_train([trajectories |-> ds_trajectories, rng |-> rng,
                                logger |-> logger], steps)
       IN /\ ds_trajectories' = after.trajectories
          /\ rng' = after.rng
          /\ logger' = after.logger
    /\ ret' = Ok("train", steps, <<>>)
    /\ ds_calls' = ds_calls + 1
    /\ UNCHANGED <<gen, sel_trajectories, ds_seed, ds_samples, twin, module_rng, handed, agvars,
                   constructed, algorithm, algorithm0, made, assigned>>

SelSteps == (0 - 1)..(MaxSelTrajs * MaxSelLen + 1)
\* steps given to sample on the dataset: from below zero to past what it holds
DsSteps == (0 - 1)..(SumLen(ds_trajectories) + 1)
\* steps given to train on the dataset
DsTrainSteps == (0 - 1)..MaxDsLen
AgSteps == 0..MaxReq

Next ==
    \/ \E steps \in SelSteps : Select(steps)
    \/ \E steps \in DsSteps : DatasetSample(steps)
    \/ \E steps \in DsTrainSteps : DatasetTrain(steps)
    \/ \E steps \in AgSteps : TrainCall(steps)
    \/ \E outcome \in EnvOutcomes : LearnEnvStep(outcome)
    \/ LearnDeliver
    \/ \E steps \in AgSteps : SampleCall(steps)
    \/ \E outcome \in EnvOutcomes : RolloutStep(outcome)

Spec == Init /\ [][Next]_vars

NextConstruct ==
    \/ \E custom_logger \in Loggers \cup {"None"} : Construct(custom_logger)
    \/ \E value \in Loggers : SetLogger(value)

SpecConstruct == InitConstruct /\ [][NextConstruct]_vars

\* ------------------------------------------------------------------ claims
IsPrefix(p, x) == Len(p) <= Len(x) /\ p = SubSeq(x, 1, Len(p))

Lens(trajectories) == [i \in 1..Len(trajectories) |-> TrajLen(trajectories[i])]

\* a direct call of the selector has returned or raised
Selected == gen = "selector" /\ ret.op = "select"

\* the result is a prefix of the input that holds at least steps transitions and
\* holds fewer without its last element
MinimalPrefix(value, trajectories, steps) ==
    /\ IsPrefix(value, trajectories)
    /\ SumLen(value) >= steps
    /\ value # <<>>
    /\ SumLen(SubSeq(value, 1, Len(value) - 1)) < steps

\* C1 as stated: for every input sequence and every steps <= its total length,
\* _get_trajectories returns a prefix of the input, in input order, whose summed
\* length is >= steps and which is minimal (without its last element the summed
\* length is < steps).
C1_AsStated ==
    (Selected /\ ret.steps <= SumLen(sel_trajectories))
        => (ret.status = "ok" /\ MinimalPrefix(ret.value, sel_trajectories, ret.steps))

\* C1 amended: the same for every steps with 1 <= steps <= the total length.
C1_MinimalPrefix ==
    (Selected /\ 1 <= ret.steps /\ ret.steps <= SumLen(sel_trajectories))
        => (ret.status = "ok" /\ MinimalPrefix(ret.value, sel_trajectories, ret.steps))

\* lengths [4, 5, 2] with steps = 6: the first two trajectories are returned
C1_Witness ==
    /\ Selected
    /\ Lens(sel_trajectories) = <<4, 5, 2>>
    /\ ret.steps = 6
    /\ ret.status = "ok"
    /\ Lens(ret.value) = <<4, 5>>

\* C2: for every input sequence and every steps greater than its total length,
\* _get_trajectories raises an error naming the requested and the available
\* count and returns nothing.
C2_InsufficientRaises ==
    (Selected /\ ret.steps > SumLen(sel_trajectories))
        => /\ ret.status = "RuntimeError"
           /\ ret.msg = <<ret.steps, SumLen(sel_trajectories)>>
           /\ ret.value = <<>>

C2_Witness ==
    /\ Selected
    /\ Lens(sel_trajectories) = <<4, 5, 2>>
    /\ ret.steps = 12
    /\ ret.status = "RuntimeError"
    /\ ret.msg = <<12, 11>>

\* the most recent call on the AgentTrainer was train / sample
Trained == gen = "AgentTrainer" /\ ret.op = "train"
Sampled == gen = "AgentTrainer" /\ ret.op = "sample"

\* C3: when n_transitions is non-zero at the moment train is called, train raises
\* an error stating that value, learn is not invoked and the buffer is left as
\* it was; when it is zero, learn is invoked exactly once with the steps given.
C3_TrainGuard ==
    Trained =>
        IF n_transitions(at_train.bw) # 0
        THEN /\ ret.status = "RuntimeError"
             /\ ret.msg = <<n_transitions(at_train.bw)>>
             /\ learn_calls = at_train.learn_calls
             /\ buffering_wrapper = at_train.bw
             /\ pc = "idle"
        ELSE /\ ret.status \in {"running", "ok"}
             /\ learn_calls = Append(at_train.learn_calls, ret.steps)

C3_Witness ==
    /\ Trained
    /\ n_transitions(at_train.bw) = 2
    /\ ret.status = "RuntimeError"
    /\ ret.msg = <<2>>
    /\ Len(learn_calls) = 1

\* the transitions recorded and not drained when train was last called
PendingAtTrain == SumLen(at_train.bw.trajectories) + Len(at_train.bw.accum.rews)

\* C4 as stated: a train call issued after an earlier train call, with no sample
\* call in between to drain the pending transitions, raises an error stating
\* the leftover transition count, and learn is not run for it.
C4_AsStated ==
    (Trained /\ train_calls >= 2 /\ PendingAtTrain > 0)
        => /\ ret.status = "RuntimeError"
           /\ ret.msg = <<n_transitions(at_train.bw)>>
           /\ learn_calls = at_train.learn_calls

\* C4 amended: such a train call raises the error stating the leftover count,
\* without running learn, exactly when the earlier training left transitions of
\* finished episodes in the buffer; when it left none (it ran no step, or no
\* episode ended) the call is accepted and learn runs.
C4_SecondTrain ==
    (Trained /\ train_calls >= 2)
        => IF at_train.bw.trajectories # <<>>
           THEN /\ ret.status = "RuntimeError"
                /\ ret.msg = <<SumLen(at_train.bw.trajectories)>>
                /\ learn_calls = at_train.learn_calls
           ELSE /\ ret.status # "RuntimeError"
                /\ learn_calls = Append(at_train.learn_calls, ret.steps)

\* train(1) ends an episode, the next train is refused with "1 transitions left"
C4_Witness ==
    /\ Trained
    /\ train_calls = 2
    /\ learn_calls = <<1>>
    /\ ret.status = "RuntimeError"
    /\ ret.msg = <<1>>

\* the claims on the buffer after a sample call, and on the train call after it
BufferCycle ==
    /\ (Sampled /\ ret.status = "ok")
           => (n_transitions(buffering_wrapper) = 0 /\ buffering_wrapper.trajectories = <<>>)
    /\ (Trained /\ train_calls = 1) => ret.status # "RuntimeError"

\* C5 as stated: after train(N) has finished with the episodes aligned,
\* n_transitions is N and stays N until sample is called; after a sample call
\* that returns, n_transitions is 0 and the buffer is empty, and the train call
\* that follows is not refused.
C5_AsStated ==
    /\ (gen = "AgentTrainer" /\ trained.steps >= 0 /\ trained.aligned)
           => n_transitions(buffering_wrapper) = trained.steps
    /\ BufferCycle

\* C5 amended: the same for N >= 1 (after train(0) the next train call is
\* accepted and fills the buffer before any sample call).
C5_BufferCycle ==
    /\ (gen = "AgentTrainer" /\ trained.steps >= 1 /\ trained.aligned)
           => n_transitions(buffering_wrapper) = trained.steps
    /\ BufferCycle

\* train, sample with a top-up, train again: accepted, and the buffer holds its steps
C5_Witness ==
    /\ Trained
    /\ ret.status = "ok"
    /\ smp.pops = 2
    /\ trained.aligned
    /\ trained.steps = 2
    /\ n_transitions(buffering_wrapper) = 2

\* the rewards the environment gave at the steps of a trajectory
TrueRewards(traj) == [k \in 1..Len(traj.rews) |-> env_log[traj.id + k - 1]]

GroundTruth(traj) ==
    /\ traj.id >= 1
    /\ traj.id + Len(traj.rews) - 1 <= Len(env_log)
    /\ traj.rews = TrueRewards(traj)

\* C6: with a constant reward function, every transition the algorithm is given
\* during train has the constant as its reward, every trajectory the
\* BufferingWrapper holds and every trajectory sample returns has the rewards
\* the environment gave, and when the algorithm is about to be given a
\* transition the BufferingWrapper has already recorded its true reward.
C6_RewardSubstitution ==
    gen = "AgentTrainer" =>
        /\ \A i \in 1..Len(agent_rews) : agent_rews[i] = reward_fn(<<>>)
        /\ \A i \in 1..Len(buffering_wrapper.trajectories) :
               GroundTruth(buffering_wrapper.trajectories[i])
        /\ (Sampled /\ ret.status = "ok")
               => \A i \in 1..Len(ret.value) : GroundTruth(ret.value[i])
        /\ pc = "learn_deliver" =>
               /\ frame.pending[1].rew = reward_fn(<<>>)
               /\ LET bw == buffering_wrapper
                      last == IF bw.accum.rews # <<>>
                              THEN [id |-> bw.accum.start, rews |-> bw.accum.rews]
                              ELSE bw.trajectories[Len(bw.trajectories)]
                  IN  /\ last.id + Len(last.rews) - 1 = Len(env_log)
                      /\ GroundTruth(last)

\* the algorithm was trained on the constant while the trajectory sample returns
\* for the same steps has a different, true reward
C6_Witness ==
    /\ Sampled
    /\ ret.status = "ok"
    /\ ret.value # <<>>
    /\ agent_rews = <<1, 1>>
    /\ \E i \in 1..Len(ret.value) : ret.value[i].id = 1 /\ ret.value[i].rews = <<0, 1>>

\* C7: a sample call of either generator returns trajectories whose summed
\* length is >= steps or raises an error; it never returns fewer steps.
C7_QuotaOrError ==
    (gen \in {"TrajectoryDataset", "AgentTrainer"} /\ ret.op = "sample")
        => \/ ret.status = "ok" /\ SumLen(ret.value) >= ret.steps
           \/ ret.status \in {"RuntimeError", "ValueError", "AssertionError"}
           \/ ret.status = "running" /\ pc = "rollout"

C7_Witness ==
    /\ gen = "TrajectoryDataset"
    /\ ret.op = "sample"
    /\ ret.status = "ok"
    /\ Len(ret.value) = 2
    /\ Len(ds_trajectories) = 3
    /\ SumLen(ret.value) > ret.steps
    /\ ret.value # SubSeq(ds_trajectories, 1, 2)

\* the diagnostics the most recent sample call logged
Logged == SubSeq(log, smp.log_from + 1, Len(log))

\* C8: sample collects additional rollouts if and only if the summed length A of
\* the trajectories of its first drain is < steps; it then asks the rollout for
\* min_timesteps = steps - A, logs one diagnostic stating that shortfall, drains
\* a second time and returns at least steps steps; when A >= steps there is no
\* rollout, no second drain and no diagnostic.
C8_TopUp ==
    Sampled =>
        LET A == SumLen(smp.first) IN
        IF A < ret.steps
        THEN /\ smp.rollouts = <<ret.steps - A>>
             /\ Logged = <<[requested |-> ret.steps, in_buffer |-> A,
                            additional |-> ret.steps - A]>>
             /\ \/ ret.status = "running" /\ pc = "rollout" /\ smp.pops = 1
                \/ /\ ret.status = "ok"
                   /\ pc = "idle"
                   /\ smp.pops = 2
                   /\ SumLen(ret.value) >= ret.steps
        ELSE /\ smp.rollouts = <<>>
             /\ Logged = <<>>
             /\ smp.pops = 1
             /\ pc = "idle"

\* the buffer holds 2 steps and sample(3) is called: the rollout is asked for 1
C8_Witness ==
    /\ Sampled
    /\ SumLen(smp.first) = 2
    /\ ret.steps = 3
    /\ smp.rollouts = <<1>>
    /\ ret.status = "ok"
    /\ SumLen(ret.value) >= 3

\* C9: every trajectory sample returns, with or without a top-up, came out of a
\* drain of the BufferingWrapper and has the rewards the environment gave; the
\* trajectories generate_trajectories returned are in no result.
C9_OnlyDrained ==
    (Sampled /\ ret.status = "ok") =>
        /\ \A i \in 1..Len(ret.value) :
               /\ ret.value[i] \in drained
               /\ ret.value[i].by = "BufferingWrapper"
               /\ GroundTruth(ret.value[i])
        /\ \A j \in 1..Len(rollout_out) : rollout_out[j] \notin Range(ret.value)

\* a top-up whose rollout trajectory has a substituted reward, and the result
\* holds the drained copy of the same episode
C9_Witness ==
    /\ Sampled
    /\ ret.status = "ok"
    /\ smp.pops = 2
    /\ \E j \in 1..Len(rollout_out) : \E i \in 1..Len(ret.value) :
           /\ ret.value[i].id = rollout_out[j].id
           /\ ret.value[i].rews # rollout_out[j].rews

NoDuplicates(x) == \A i, j \in 1..Len(x) : i # j => x[i] # x[j]

\* C10: over any sequence of train/sample cycles, a trajectory the
\* BufferingWrapper finished is in the result of at most one sample call, and at
\* most once in it.
C10_NoDuplicates ==
    gen = "AgentTrainer" =>
        /\ NoDuplicates(returned)
        /\ NoDuplicates(ret.value)

\* two cycles, each sample returning what its train recorded
C10_Witness ==
    /\ Sampled
    /\ ret.status = "ok"
    /\ ret.value # <<>>
    /\ Len(learn_calls) = 2
    /\ Len(returned) > Len(ret.value)

\* the trajectories the most recent sample call took out of the BufferingWrapper
DrainedBySample == Range(smp.first) \cup Range(smp.second)

\* C11 as stated: every finished trajectory a sample call drains is in the
\* result of that call or remains available to a later sample call.
C11_AsStated ==
    (Sampled /\ ret.status = "ok") =>
        \A traj \in DrainedBySample :
            \/ traj \in Range(ret.value)
            \/ traj \in Range(buffering_wrapper.trajectories)

\* C11 amended: a sample call hands everything it drained to the selector, most
\* recent of the first drain first, and returns the selected prefix; the
\* drained trajectories behind that prefix are discarded: the buffer is empty
\* after the call, so no later sample call can return them.
C11_DrainedOrDiscarded ==
    (Sampled /\ ret.status = "ok") =>
        /\ Range(handed) = DrainedBySample
        /\ Len(handed) = Len(smp.first) + Len(smp.second)
        /\ IsPrefix(ret.value, handed)
        /\ buffering_wrapper.trajectories = <<>>
        /\ \A traj \in DrainedBySample :
               traj \notin Range(ret.value) => traj \notin Range(buffering_wrapper.trajectories)

\* two episodes were drained and sample(1) returns the later one only
C11_Witness ==
    /\ Sampled
    /\ ret.status = "ok"
    /\ Len(smp.first) = 2
    /\ Len(ret.value) = 1
    /\ ret.value[1] = smp.first[2]
    /\ smp.first[1] \notin Range(ret.value)
    /\ buffering_wrapper.trajectories = <<>>

\* C12: on an AgentTrainer, once __init__ has run and after every assignment
\* to the logger, the algorithm's logger is the generator's logger, which is
\* the value most recently assigned.
C12_LoggerPropagation ==
    (gen = "AgentTrainer" /\ constructed # "no") =>
        /\ assigned # <<>>
        /\ logger = assigned[Len(assigned)]
        /\ algorithm.logger = logger

\* the logger was assigned after construction and the algorithm followed
C12_Witness ==
    /\ gen = "AgentTrainer"
    /\ constructed = "ok"
    /\ Len(assigned) = 3
    /\ assigned[1] = Configured
    /\ assigned[3] = "L2"
    /\ algorithm0.logger = "sb3"
    /\ algorithm.logger = "L2"

\* C13 as stated: when __init__ fails because the algorithm's environment is
\* not a VecEnv, no wrapper has been created and the algorithm is as it was
\* passed in.
C13_AsStated ==
    (gen = "AgentTrainer" /\ constructed = "ValueError") =>
        /\ made = <<>>
        /\ algorithm.env = algorithm0.env
        /\ algorithm = algorithm0

RECURSIVE StreamAfter(_, _, _)
\* the state of a generator seeded with seed after n shuffles of the list x
StreamAfter(seed, x, n) ==
    IF n = 0 THEN Seeded(seed) ELSE Shuffle(x, StreamAfter(seed, x, n - 1)).rng

\* what the n-th sample call of a fresh TrajectoryDataset hands to the selector
FreshHanded(seed, x, n) == Shuffle(x, StreamAfter(seed, x, n - 1)).list

\* C14: a second TrajectoryDataset built from the same collection and seed and
\* given the same sample calls returns what the first returns, call by call;
\* the n-th sample call shuffles with the stream the n-1 calls before it left,
\* never with a freshly seeded one.
C14_Deterministic ==
    gen = "TrajectoryDataset" =>
        /\ rng = StreamAfter(ds_seed, ds_trajectories, ds_samples)
        /\ ds_samples > 0 =>
               /\ twin.handed = FreshHanded(ds_seed, ds_trajectories, ds_samples)
               /\ twin.ret = get_trajectories("sample", twin.handed, twin.ret.steps)
        /\ ret.op = "sample" =>
               /\ handed = twin.handed
               /\ ret = twin.ret

\* the second sample call of both instances returns the same two trajectories,
\* in an order a freshly seeded generator would not have given
C14_Witness ==
    /\ gen = "TrajectoryDataset"
    /\ ds_samples = 2
    /\ ret.op = "sample"
    /\ ret.status = "ok"
    /\ Len(ret.value) >= 2
    /\ ret = twin.ret
    /\ handed # FreshHanded(ds_seed, ds_trajectories, 1)
    /\ rng # StreamAfter(ds_seed, ds_trajectories, 1)

\* C15: train on a TrajectoryDataset reports no error for any steps and leaves
\* the stored collection, the generator and the logger as they were: the
\* instance stays equal to one that was given the sample calls only, and its
\* next sample returns what that one returns.
C15_TrainNoOp ==
    gen = "TrajectoryDataset" =>
        /\ ds_trajectories = twin.trajectories
        /\ rng = twin.rng
        /\ logger = assigned[Len(assigned)]
        /\ Len(assigned) = 1
        /\ ret.op = "train" => (ret.status = "ok" /\ handed = twin.handed)
        /\ ret.op = "sample" => ret = twin.ret

\* a train call, after a sample call that advanced the generator
C15_Witness ==
    /\ gen = "TrajectoryDataset"
    /\ ret.op = "train"
    /\ ret.status = "ok"
    /\ ret.steps = 2
    /\ ds_samples = 1
    /\ ds_calls = 2
    /\ rng # Seeded(ds_seed)
    /\ rng = twin.rng

\* a sample call of the dataset has failed
DatasetFailed == ret.status # "ok"

\* what a sample call of the dataset leaves and returns, but for when it fails
C17_Frame ==
    /\ ds_trajectories = Load(Lens(ds_trajectories))
    /\ ret.op = "sample" =>
           /\ Range(handed) = Range(ds_trajectories)
           /\ Len(handed) = Len(ds_trajectories)
           /\ ret.status = "ok" =>
                  /\ Range(ret.value) \subseteq Range(ds_trajectories)
                  /\ NoDuplicates(Ids(ret.value))

\* C17 as stated: sample(steps) on a TrajectoryDataset leaves the stored
\* collection as it was, returns members of it, none twice, and fails if and
\* only if the collection holds fewer than steps steps.
C17_AsStated ==
    gen = "TrajectoryDataset" =>
        /\ C17_Frame
        /\ ret.op = "sample" => (DatasetFailed <=> SumLen(ds_trajectories) < ret.steps)

\* the trajectories of a drain are in the order they were finished
InCompletionOrder(x) == \A i, j \in 1..Len(x) : i < j => x[i].id < x[j].id

\* C16: the list sample hands to the selector is the first drain, most recently
\* finished first, followed after a top-up by the second drain in the order it
\* was drained; the result is a prefix of that list, so of the first drain a
\* trajectory is returned only together with every one finished after it.
C16_SampleOrder ==
    (Sampled /\ ret.status # "running") =>
        /\ InCompletionOrder(smp.first)
        /\ InCompletionOrder(smp.second)
        /\ smp.pops = 1 => smp.second = <<>>
        /\ handed = Reverse(smp.first) \o smp.second
        /\ ret.status = "ok" =>
               /\ IsPrefix(ret.value, handed)
               /\ \A i, j \in 1..Len(smp.first) :
                      (i < j /\ smp.first[i] \in Range(ret.value))
                          => smp.first[j] \in Range(ret.value)

\* two trajectories came with the first drain and one with the top-up; all
\* three are returned, the later of the first drain first
C16_Witness ==
    /\ Sampled
    /\ ret.status = "ok"
    /\ Len(smp.first) = 2
    /\ Len(smp.second) = 1
    /\ smp.pops = 2
    /\ ret.value = <<smp.first[2], smp.first[1], smp.second[1]>>

\* a top-up brought two trajectories, returned behind the one of the first drain
C16_SecondDrainInOrder ==
    /\ Sampled
    /\ ret.status = "ok"
    /\ Len(smp.first) = 1
    /\ Len(smp.second) = 2
    /\ ret.value = <<smp.first[1], smp.second[1], smp.second[2]>>

====
